---- MODULE Spec2Model ----
(***************************************************************************)
(* Focusrite Scarlett 18i6 mixer control (scarlettmixer.py).               *)
(*                                                                         *)
(* The script drives the device through USB control transfers.  The model  *)
(* keeps, per control address (wIndex, wValue), the payload of the last    *)
(* SET request the device accepted, the requests handed to                 *)
(* device.ctrl_transfer by the current top-level call, and the exception   *)
(* (if any) that left that call.  The script never catches an exception,   *)
(* so a raised error ends the process.                                     *)
(*                                                                         *)
(* Decibel values are rationals n / DbDen and are carried as the integer   *)
(* numerator n; every float expression of the source is exact on them.     *)
(***************************************************************************)
EXTENDS Integers, Sequences, FiniteSets, TLC

VARIABLES
  dev,     \* (wIndex, wValue) -> payload of the last accepted SET request
  sent,    \* requests handed to device.ctrl_transfer by the current call
  err,     \* "none", or the exception that propagated out of the call
  op,      \* the current / last top-level call: [name, args]
  pc,      \* 0: no bulk program running; k > 0: next statement of op.name
  ncalls,  \* number of setter calls made so far
  ret      \* value returned by the last call (None if it returns nothing)

vars == <<dev, sent, err, op, pc, ncalls, ret>>

----------------------------------------------------------------------------
(* Bounds of the model *)

\* setter calls explored before / between the bulk programs
MaxCalls == 1

\* decibel resolution: values are multiples of 1/DbDen dB
DbDen == 1024

\* the codec inputs range over -(DbBelow) dB .. +(DbAbove) dB
DbBelow == 130

DbAbove == 8

----------------------------------------------------------------------------
(* ENUMS *)

impedance_LINEIN == 0

impedance_INSTRUMENT == 1

clocksource_INTERNAL == 1

clocksource_SPDIF == 2

clocksource_ADAT == 3

mute_UNMUTE == <<0, 0>>

mute_MUTE == <<1, 0>>

sigsrc_OFF == \hff

sigsrc_DAW1 == \h00

sigsrc_DAW2 == \h01

sigsrc_ANALG1 == \h06

sigsrc_SPDIF1 == \h0e

sigsrc_SPDIF2 == \h0f

sigsrc_ADAT1 == \h10

mixbus_OFF == \hff

mixbus_M1 == \h18

mixbus_M2 == \h19

sigout_MASTER == 0

sigout_MONITOR_LEFT == 1

sigout_MONITOR_RIGHT == 2

sigout_PHONES_LEFT == 3

sigout_PHONES_RIGHT == 4

----------------------------------------------------------------------------
(* Python values *)

\* the value of a call that returns nothing, of a register never written
None == <<>>

\* a number (a decibel value n / DbDen) and a list: att_to_hex is handed both
PyNum(n) == [t |-> "num", v |-> n]

PyList(s) == [t |-> "list", v |-> s]

\* Python 2 orders a number before any list: x <= c and x >= c for a number c
PyLe(x, c) == IF x.t = "num" THEN x.v <= c ELSE FALSE

PyGe(x, c) == IF x.t = "num" THEN x.v >= c ELSE TRUE

----------------------------------------------------------------------------
(* helper functions - decibel calc *)

att_to_hex_round(value) ==
  IF PyLe(value, (-128) * DbDen) THEN <<\h00, \h80>>
  ELSE IF PyGe(value, 0) THEN <<\h00, \h00>>
  ELSE LET val == (131073 * DbDen + 512 * value.v + DbDen) \div (2 * DbDen)
       IN  <<val % 256, val \div 256>>

\* val = floor(65536.5 + 256.0 * value); [(val & 0xff), (val >> 8)]
att_to_hex(value) ==
  IF PyLe(value, (-128) * DbDen) THEN <<\h00, \h80>>
  ELSE IF PyGe(value, 0) THEN <<\h00, \h00>>
  ELSE LET val == (131073 * DbDen + 512 * value.v) \div (2 * DbDen)
       IN  <<val % 256, val \div 256>>

gain_to_hex_ff(value) ==
  LET v == (2 * value + DbDen) \div (2 * DbDen)
  IN  IF v <= -128 THEN <<\h00, \h80>>
      ELSE IF v > 6 THEN <<\h00, \h06>>
      ELSE IF v >= 0 THEN <<\h00, \h00 + v>>
      ELSE <<\h00, \hff + v>>

\* value = int(math.floor(value + .5)), then the clamps
gain_to_hex(value) ==
  LET v == (2 * value + DbDen) \div (2 * DbDen)
  IN  IF v <= -128 THEN <<\h00, \h80>>
      ELSE IF v > 6 THEN <<\h00, \h06>>
      ELSE IF v >= 0 THEN <<\h00, \h00 + v>>
      ELSE <<\h00, \h100 + v>>

----------------------------------------------------------------------------
(* send USB URB ctrl commands *)

\* what device.ctrl_transfer does with one request
Outcomes == {"ok", "short", "raise"}

\* a payload pyusb can put on the wire: a sequence of bytes
IsPayload(data) == \A i \in 1..Len(data) : data[i] \in 0..255

Req(bmRequestType, bRequest, wValue, wIndex, data) ==
  [bmRequestType |-> bmRequestType, bRequest |-> bRequest,
   wValue |-> wValue, wIndex |-> wIndex, data |-> data]

Addr(req) == <<req.wIndex, req.wValue>>

\* the device stores the payload at the request's address
Write(d, req) ==
  IF Addr(req) \in DOMAIN d THEN [d EXCEPT ![Addr(req)] = req.data]
  ELSE (Addr(req) :> req.data) @@ d

\* the interpreter's view during a call: device, requests made, pending
\* exception, and what the transport will answer to the coming requests
Enter(tr) == [dev |-> dev, sent |-> <<>>, err |-> "none", tr |-> tr]

Resume(tr) == [dev |-> dev, sent |-> sent, err |-> err, tr |-> tr]

\* a ctrl_send that tries the transfer again after a failure
ctrl_send_retry(m, wValue, wIndex, data) ==
  IF m.err # "none" THEN m
  ELSE LET req == Req(\h21, \h01, wValue, wIndex, data)
           ok  == Head(m.tr) = "ok" /\ IsPayload(data)
       IN  [dev  |-> IF ok THEN Write(m.dev, req) ELSE m.dev,
            sent |-> IF ok THEN Append(m.sent, req)
                     ELSE Append(Append(m.sent, req), req),
            err  |-> IF ok THEN "none" ELSE "ValueError",
            tr   |-> Tail(m.tr)]

\* try: assert device.ctrl_transfer(0x21, 0x01, wValue, wIndex, data) == len(data)
\* except: raise ValueError('request failed')
\* An exception already on its way out of the call skips the statement.
ctrl_send(m, wValue, wIndex, data) ==
  IF m.err # "none" THEN m
  ELSE LET req == Req(\h21, \h01, wValue, wIndex, data)
           ok  == Head(m.tr) = "ok" /\ IsPayload(data)
       IN  [dev  |-> IF ok THEN Write(m.dev, req) ELSE m.dev,
            sent |-> Append(m.sent, req),
            err  |-> IF ok THEN "none" ELSE "ValueError",
            tr   |-> Tail(m.tr)]

\* a command (bRequest = cmd) sets no register
ctrl_cmd(m, cmd, wValue, wIndex, data) ==
  IF m.err # "none" THEN m
  ELSE LET ok == Head(m.tr) = "ok" /\ IsPayload(data)
       IN  [dev  |-> m.dev,
            sent |-> Append(m.sent, Req(\h21, cmd, wValue, wIndex, data)),
            err  |-> IF ok THEN "none" ELSE "ValueError",
            tr   |-> Tail(m.tr)]

\* rv = device.ctrl_transfer(0xa1, cmd, wValue, wIndex, data): data is the
\* requested length; query_peak is given the blocks the transport returns
ctrl_req(m, cmd, wValue, wIndex, data) ==
  IF m.err # "none" THEN m
  ELSE [dev  |-> m.dev,
        sent |-> Append(m.sent, Req(\ha1, cmd, wValue, wIndex, data)),
        err  |-> IF Head(m.tr) = "ok" THEN "none" ELSE "ValueError",
        tr   |-> Tail(m.tr)]

----------------------------------------------------------------------------
(* 18i6 config, switches, bus gains, matrix mixer, routing table *)

cfg_save_settings_to_hardware(m) ==
  ctrl_cmd(m, \h03, \h005a, \h3c00, <<\ha5>>)

sw_impedance(m, chn, mode) ==
  ctrl_send(m, \h0901 + chn, \h0100, <<mode, \h00>>)

sw_clocksource(m, src) ==
  ctrl_send(m, \h0100, \h2800, <<src>>)

sw_mute_bus(m, bus, onoff) ==
  IF bus < 0 \/ bus > 4 THEN m
  ELSE ctrl_send(m, \h0100 + bus, \h0a00, onoff)

att_postroute(m, bus, gain) ==
  IF bus < 0 \/ bus > 4 THEN m
  ELSE ctrl_send(m, \h0200 + bus, \h0a00, att_to_hex(gain))

att_out_master(m, gain) ==
  att_postroute(m, sigout_MASTER, PyList(att_to_hex(gain)))

att_out_monitor(m, left, right) ==
  att_postroute(att_postroute(m, sigout_MONITOR_LEFT, PyList(att_to_hex(left))),
                sigout_MONITOR_RIGHT, PyList(att_to_hex(right)))

att_out_phones(m, left, right) ==
  att_postroute(att_postroute(m, sigout_PHONES_LEFT, PyList(att_to_hex(left))),
                sigout_PHONES_RIGHT, PyList(att_to_hex(right)))

mixer_set_source_18(m, src, mixin) ==
  IF mixin < 0 \/ mixin > \h12 THEN m
  ELSE ctrl_send(m, \h0600 + mixin, \h3200, <<src, \h00>>)

mixer_set_source(m, src, mixin) ==
  IF mixin < 0 \/ mixin > \h11 THEN m
  ELSE ctrl_send(m, \h0600 + mixin, \h3200, <<src, \h00>>)

\* mtx = (chn<<3) + (bus&0x07)
mixer_set_gain(m, chn, bus, gain) ==
  IF bus < 0 \/ bus > 5 THEN m
  ELSE IF chn < 0 \/ chn > 17 THEN m
  ELSE LET mtx == chn * 8 + (bus % 8)
       IN  ctrl_send(m, \h0100 + mtx, \h3c00, gain_to_hex(gain))

bus_set_source(m, route, mixout) ==
  IF route < 0 \/ route > 5 THEN m
  ELSE ctrl_send(m, route, \h3300, <<mixout, \h00>>)

----------------------------------------------------------------------------
(* FACTORY RESET / zero_settings: the statements, in program order *)

Stmt(f, a) == [f |-> f, a |-> a]

\* the statement s, executed by the interpreter in state m
Call(m, s) ==
  CASE s.f = "ctrl_send"        -> ctrl_send(m, s.a[1], s.a[2], s.a[3])
    [] s.f = "bus_set_source"   -> bus_set_source(m, s.a[1], s.a[2])
    [] s.f = "mixer_set_source" -> mixer_set_source(m, s.a[1], s.a[2])
    [] s.f = "mixer_set_gain"   -> mixer_set_gain(m, s.a[1], s.a[2], s.a[3])
    [] s.f = "sw_mute_bus"      -> sw_mute_bus(m, s.a[1], s.a[2])
    [] s.f = "sw_impedance"     -> sw_impedance(m, s.a[1], s.a[2])

\* for i in range(18): ctrl_send(0x0000 + i, 0x3400, [0x06 + i, 0x00])
ClearAssignments ==
  [k \in 1..18 |-> Stmt("ctrl_send", <<\h0000 + (k - 1), \h3400, <<\h06 + (k - 1), \h00>>>>)]

\* sw_mute_bus(sigout.MONITOR_LEFT, mute.UNMUTE) ... PHONES_RIGHT
UnmuteOutputs ==
  << Stmt("sw_mute_bus", <<sigout_MONITOR_LEFT, mute_UNMUTE>>),
     Stmt("sw_mute_bus", <<sigout_MONITOR_RIGHT, mute_UNMUTE>>),
     Stmt("sw_mute_bus", <<sigout_PHONES_LEFT, mute_UNMUTE>>),
     Stmt("sw_mute_bus", <<sigout_PHONES_RIGHT, mute_UNMUTE>>) >>

\* a reset whose pass-through test compares the parities of input and bus
factory_reset_parity ==
  ClearAssignments
  \o << Stmt("bus_set_source", <<0, mixbus_M1>>),
        Stmt("bus_set_source", <<1, mixbus_M2>>),
        Stmt("bus_set_source", <<2, mixbus_M1>>),
        Stmt("bus_set_source", <<3, mixbus_M2>>),
        Stmt("bus_set_source", <<4, mixbus_OFF>>),
        Stmt("bus_set_source", <<5, mixbus_OFF>>) >>
  \o [k \in 1..8 |-> Stmt("mixer_set_source", <<\h06 + (k - 1), k - 1>>)]
  \o [k \in 1..6 |-> Stmt("mixer_set_source", <<\h10 + (k - 1), 8 + (k - 1)>>)]
  \o << Stmt("mixer_set_source", <<\h0e, \h0e>>),
        Stmt("mixer_set_source", <<\h0f, \h0f>>),
        Stmt("mixer_set_source", <<\h00, \h10>>),
        Stmt("mixer_set_source", <<\h01, \h11>>) >>
  \o [k \in 1..108 |->
        LET i == (k - 1) \div 6
            o == (k - 1) % 6
        IN  Stmt("mixer_set_gain",
                 <<i, o, IF (i % 2) = (o % 2) THEN 0 ELSE (-200) * DbDen>>)]
  \o UnmuteOutputs
  \o << Stmt("sw_impedance", <<0, impedance_LINEIN>>),
        Stmt("sw_impedance", <<1, impedance_LINEIN>>),
        Stmt("ctrl_send", <<\h0803, \h0100, <<\h00, \h00>>>>),
        Stmt("ctrl_send", <<\h0804, \h0100, <<\h00, \h00>>>>) >>

factory_reset ==
  ClearAssignments
  \* set bus outs
  \o << Stmt("bus_set_source", <<0, mixbus_M1>>),
        Stmt("bus_set_source", <<1, mixbus_M2>>),
        Stmt("bus_set_source", <<2, mixbus_M1>>),
        Stmt("bus_set_source", <<3, mixbus_M2>>),
        Stmt("bus_set_source", <<4, mixbus_OFF>>),
        Stmt("bus_set_source", <<5, mixbus_OFF>>) >>
  \* Analog in: for i in range(8): mixer_set_source(0x06 + i, i)
  \o [k \in 1..8 |-> Stmt("mixer_set_source", <<\h06 + (k - 1), k - 1>>)]
  \* ADAT: for i in range(6): mixer_set_source(0x10 + i, 8+i)
  \o [k \in 1..6 |-> Stmt("mixer_set_source", <<\h10 + (k - 1), 8 + (k - 1)>>)]
  \* SPDIF, DAW
  \o << Stmt("mixer_set_source", <<\h0e, \h0e>>),
        Stmt("mixer_set_source", <<\h0f, \h0f>>),
        Stmt("mixer_set_source", <<\h00, \h10>>),
        Stmt("mixer_set_source", <<\h01, \h11>>) >>
  \* for i in range(18): for o in range(6): g = -200; if ((i%2) == o): g = 0
  \o [k \in 1..108 |->
        LET i == (k - 1) \div 6
            o == (k - 1) % 6
        IN  Stmt("mixer_set_gain",
                 <<i, o, IF (i % 2) = o THEN 0 ELSE (-200) * DbDen>>)]
  \o UnmuteOutputs
  \o << Stmt("sw_impedance", <<0, impedance_LINEIN>>),
        Stmt("sw_impedance", <<1, impedance_LINEIN>>),
        \* ?? hi/lo gain for the 8i6 inputs 3,4 ??
        Stmt("ctrl_send", <<\h0803, \h0100, <<\h00, \h00>>>>),
        Stmt("ctrl_send", <<\h0804, \h0100, <<\h00, \h00>>>>) >>

\* a zero_settings that also unmutes the master bus
zero_settings_master ==
  [k \in 1..108 |->
     Stmt("mixer_set_gain", <<(k - 1) \div 6, (k - 1) % 6, (-200) * DbDen>>)]
  \o ClearAssignments
  \o [k \in 1..6 |-> Stmt("bus_set_source", <<k - 1, mixbus_OFF>>)]
  \o [k \in 1..18 |-> Stmt("mixer_set_source", <<sigsrc_OFF, k - 1>>)]
  \o << Stmt("sw_mute_bus", <<sigout_MASTER, mute_UNMUTE>>) >>
  \o UnmuteOutputs

zero_settings ==
  [k \in 1..108 |->
     Stmt("mixer_set_gain", <<(k - 1) \div 6, (k - 1) % 6, (-200) * DbDen>>)]
  \o ClearAssignments
  \o [k \in 1..6 |-> Stmt("bus_set_source", <<k - 1, mixbus_OFF>>)]
  \o [k \in 1..18 |-> Stmt("mixer_set_source", <<sigsrc_OFF, k - 1>>)]
  \o UnmuteOutputs

Program(name) ==
  IF name = "factory_reset" THEN factory_reset
  ELSE IF name = "zero_settings" THEN zero_settings
  ELSE <<>>

----------------------------------------------------------------------------
(* PEAK METER *)

NegInf == "-inf"

\* float(20.0 * math.log(v / 65536.0, 10)), kept as the term it computes
val16_to_db(v) ==
  IF v = 0 THEN NegInf
  ELSE [times |-> 20, log10 |-> <<v, 65536>>]

\* ((hi&0xff)<<8) + (lo&0xff)
twobyte_to_db(hi, lo) == val16_to_db((hi % 256) * 256 + (lo % 256))

\* the readings of n channels taken from blk; blk[2*i+1], blk[2*i] of the
\* source are elements 2*i+2 and 2*i+1 here
Readings(blk, n) ==
  [k \in 1..n |-> twobyte_to_db(blk[2 * k], blk[2 * k - 1])]

\* ins, daw, mix are the blocks device.ctrl_transfer delivers to the three
\* requests; indexing past the end of a block raises IndexError
query_peak(m, ins, daw, mix) ==
  LET m1 == ctrl_req(m, \h03, \h0000, \h3c00, 36)
      m2 == ctrl_req(m1, \h03, \h0003, \h3c00, 12)
      m3 == ctrl_req(m2, \h03, \h0001, \h3c00, 16)
  IN  IF m3.err # "none" THEN [m |-> m3, ret |-> None]
      ELSE IF Len(ins) < 2 * 18 \/ Len(daw) < 2 * 6 \/ Len(mix) < 2 * 8
      THEN [m |-> [m3 EXCEPT !.err = "IndexError"], ret |-> None]
      ELSE [m |-> m3,
            ret |-> [input |-> Readings(ins, 18),
                     daw   |-> Readings(daw, 6),
                     mixer |-> Readings(mix, 8)]]

----------------------------------------------------------------------------
(* Inputs of the calls *)

\* one or two answers of the transport
Tr1 == {<<o>> : o \in Outcomes}

Tr2 == {<<o1, o2>> : o1 \in Outcomes, o2 \in Outcomes}

TrReq == {<<o1, o2, o3>> : o1 \in {"ok", "raise"}, o2 \in {"ok", "raise"},
                           o3 \in {"ok", "raise"}}

ImpChannels == {-1, 0, 1, 2}

ImpModes == {impedance_LINEIN, impedance_INSTRUMENT}

ClockSources == {clocksource_INTERNAL, clocksource_SPDIF, clocksource_ADAT}

OutBuses == {-1, 0, 4, 5}

MuteCodes == {mute_UNMUTE, mute_MUTE}

\* attenuations: -128 dB, -6 dB, -1/DbDen dB, 0 dB
AttDbs == {(-128) * DbDen, (-6) * DbDen, -1, 0}

WrapperDbs == {(-6) * DbDen, 0}

MixIns == {-1, 0, 17, 18}

SigSrcs == {sigsrc_OFF, sigsrc_ANALG1}

\* matrix cells (chn, bus): in range, and out of range on either side
MixCells == {<<-1, 2>>, <<3, -1>>, <<3, 2>>, <<17, 5>>, <<18, 5>>, <<17, 6>>}

\* gains: -129, -128, -127, -1, 0, 6 and 7 dB
GainDbs == {(-129) * DbDen, (-128) * DbDen, (-127) * DbDen, (-1) * DbDen,
            0, 6 * DbDen, 7 * DbDen}

Routes == {-1, 0, 5, 6}

MixBuses == {mixbus_OFF, mixbus_M1}

\* a block of len bytes: byte j (from 1) is fill * j mod 256
Block(len, fill) == [j \in 1..len |-> (fill * j) % 256]

BlockFills == {0, 37}

BlocksOf(n) == {Block(len, f) : len \in {n - 1, n, n + 1}, f \in BlockFills}

DbRange == ((-DbBelow) * DbDen)..(DbAbove * DbDen)

----------------------------------------------------------------------------
(* The script as a state machine *)

Init ==
  /\ dev = <<>>
  /\ sent = <<>>
  /\ err = "none"
  /\ op = [name |-> "none", args |-> <<>>]
  /\ pc = 0
  /\ ncalls = 0
  /\ ret = None

\* the interpreter is between top-level calls and no exception ended it
Idle == pc = 0 /\ err = "none"

\* the call returns (or raises) with the interpreter state m
Returns(m, name, args, r) ==
  /\ \E n \in {m} :
       /\ dev' = n.dev
       /\ sent' = n.sent
       /\ err' = n.err
  /\ op' = [name |-> name, args |-> args]
  /\ ret' = r
  /\ pc' = 0

Setter == Idle /\ ncalls < MaxCalls /\ ncalls' = ncalls + 1

Call_cfg_save_settings_to_hardware ==
  /\ Setter
  /\ \E tr \in Tr1 :
       Returns(cfg_save_settings_to_hardware(Enter(tr)),
               "cfg_save_settings_to_hardware", <<>>, None)

Call_sw_impedance ==
  /\ Setter
  /\ \E chn \in ImpChannels, mode \in ImpModes, tr \in Tr1 :
       Returns(sw_impedance(Enter(tr), chn, mode),
               "sw_impedance", <<chn, mode>>, None)

Call_sw_clocksource ==
  /\ Setter
  /\ \E src \in ClockSources, tr \in Tr1 :
       Returns(sw_clocksource(Enter(tr), src), "sw_clocksource", <<src>>, None)

Call_sw_mute_bus ==
  /\ Setter
  /\ \E bus \in OutBuses, onoff \in MuteCodes, tr \in Tr1 :
       Returns(sw_mute_bus(Enter(tr), bus, onoff),
               "sw_mute_bus", <<bus, onoff>>, None)

Call_att_postroute ==
  /\ Setter
  /\ \E bus \in OutBuses, gain \in AttDbs, tr \in Tr1 :
       Returns(att_postroute(Enter(tr), bus, PyNum(gain)),
               "att_postroute", <<bus, gain>>, None)

Call_att_out_master ==
  /\ Setter
  /\ \E gain \in WrapperDbs, tr \in Tr1 :
       Returns(att_out_master(Enter(tr), PyNum(gain)),
               "att_out_master", <<gain>>, None)

Call_att_out_monitor ==
  /\ Setter
  /\ \E left \in WrapperDbs, right \in WrapperDbs, tr \in Tr2 :
       Returns(att_out_monitor(Enter(tr), PyNum(left), PyNum(right)),
               "att_out_monitor", <<left, right>>, None)

Call_att_out_phones ==
  /\ Setter
  /\ \E left \in WrapperDbs, right \in WrapperDbs, tr \in Tr2 :
       Returns(att_out_phones(Enter(tr), PyNum(left), PyNum(right)),
               "att_out_phones", <<left, right>>, None)

Call_mixer_set_source ==
  /\ Setter
  /\ \E src \in SigSrcs, mixin \in MixIns, tr \in Tr1 :
       Returns(mixer_set_source(Enter(tr), src, mixin),
               "mixer_set_source", <<src, mixin>>, None)

Call_mixer_set_gain ==
  /\ Setter
  /\ \E cell \in MixCells, gain \in GainDbs, tr \in Tr1 :
       Returns(mixer_set_gain(Enter(tr), cell[1], cell[2], gain),
               "mixer_set_gain", <<cell[1], cell[2], gain>>, None)

Call_bus_set_source ==
  /\ Setter
  /\ \E route \in Routes, mixout \in MixBuses, tr \in Tr1 :
       Returns(bus_set_source(Enter(tr), route, mixout),
               "bus_set_source", <<route, mixout>>, None)

\* entering a bulk program; its statements run one transfer at a time
Call_factory_reset ==
  /\ Idle
  /\ op' = [name |-> "factory_reset", args |-> <<>>]
  /\ pc' = 1
  /\ sent' = <<>>
  /\ ret' = None
  /\ UNCHANGED <<dev, err, ncalls>>

Call_zero_settings ==
  /\ Idle
  /\ op' = [name |-> "zero_settings", args |-> <<>>]
  /\ pc' = 1
  /\ sent' = <<>>
  /\ ret' = None
  /\ UNCHANGED <<dev, err, ncalls>>

\* the next statement of the running program; an exception leaves the
\* program at that statement, the last statement returns to the caller
Step ==
  /\ pc > 0
  /\ err = "none"
  /\ \E tr \in Tr1 :
       \E m \in {Call(Resume(tr), Program(op.name)[pc])} :
           /\ dev' = m.dev
           /\ sent' = m.sent
           /\ err' = m.err
           /\ pc' = IF m.err # "none" THEN pc
                    ELSE IF pc = Len(Program(op.name)) THEN 0
                    ELSE pc + 1
  /\ UNCHANGED <<op, ncalls, ret>>

Next ==
  \/ Call_cfg_save_settings_to_hardware
  \/ Call_sw_impedance
  \/ Call_sw_clocksource
  \/ Call_sw_mute_bus
  \/ Call_att_postroute
  \/ Call_att_out_master
  \/ Call_att_out_monitor
  \/ Call_att_out_phones
  \/ Call_mixer_set_source
  \/ Call_mixer_set_gain
  \/ Call_bus_set_source
  \/ Call_factory_reset
  \/ Call_zero_settings
  \/ Step

Spec == Init /\ [][Next]_vars

----------------------------------------------------------------------------
(* The decibel codecs on their own: one input, one evaluation *)

CodecInit ==
  /\ dev = <<>>
  /\ sent = <<>>
  /\ err = "none"
  /\ \E n \in DbRange : op = [name |-> "input", args |-> <<n>>]
  /\ pc = 0
  /\ ncalls = 0
  /\ ret = None

Eval_att_to_hex ==
  /\ op.name = "input"
  /\ op' = [op EXCEPT !.name = "att_to_hex"]
  /\ ret' = att_to_hex(PyNum(op.args[1]))
  /\ UNCHANGED <<dev, sent, err, pc, ncalls>>

Eval_gain_to_hex ==
  /\ op.name = "input"
  /\ op' = [op EXCEPT !.name = "gain_to_hex"]
  /\ ret' = gain_to_hex(op.args[1])
  /\ UNCHANGED <<dev, sent, err, pc, ncalls>>

CodecNext == Eval_att_to_hex \/ Eval_gain_to_hex

CodecSpec == CodecInit /\ [][CodecNext]_vars

----------------------------------------------------------------------------
(* The peak meter on its own: the transport's three answers, one poll.    *)
(* query_peak reads no register and sets none.                            *)

MeterInit ==
  /\ dev = <<>>
  /\ sent = <<>>
  /\ err = "none"
  /\ \E ins \in BlocksOf(36), daw \in BlocksOf(12), mix \in BlocksOf(16),
        tr \in TrReq :
       op = [name |-> "input", args |-> <<ins, daw, mix, tr>>]
  /\ pc = 0
  /\ ncalls = 0
  /\ ret = None

Call_query_peak ==
  /\ Idle
  /\ op.name = "input"
  /\ LET r == query_peak(Enter(op.args[4]), op.args[1], op.args[2], op.args[3])
     IN  Returns(r.m, "query_peak", op.args, r.ret)
  /\ UNCHANGED ncalls

MeterNext == Call_query_peak

MeterSpec == MeterInit /\ [][MeterNext]_vars

----------------------------------------------------------------------------
(* Properties *)

Requests == {sent[i] : i \in 1..Len(sent)}

BulkPrograms == {"factory_reset", "zero_settings"}

\* the call named name has returned without an error
Completed(name) == op.name = name /\ pc = 0 /\ err = "none"

\* C1: a call of mixer_set_source, mixer_set_gain, bus_set_source,
\* sw_mute_bus or att_postroute with an index out of range emits no request
\* and raises nothing, and no request ever emitted addresses a matrix input
\* above 17, a router destination above 5 or an output bus above 4.
C1_OutOfRangeIsNoOp ==
  /\ (op.name = "mixer_set_source" /\ op.args[2] \notin 0..17)
       => (sent = <<>> /\ err = "none")
  /\ (op.name = "mixer_set_gain"
        /\ (op.args[1] \notin 0..17 \/ op.args[2] \notin 0..5))
       => (sent = <<>> /\ err = "none")
  /\ (op.name = "bus_set_source" /\ op.args[1] \notin 0..5)
       => (sent = <<>> /\ err = "none")
  /\ (op.name \in {"sw_mute_bus", "att_postroute"} /\ op.args[1] \notin 0..4)
       => (sent = <<>> /\ err = "none")
  /\ \A r \in Requests :
       /\ r.wIndex = \h3200 => r.wValue \in \h0600..\h0611
       /\ r.wIndex = \h3300 => r.wValue \in 0..5
       /\ r.wIndex = \h0a00 => r.wValue \in (\h0100..\h0104) \cup (\h0200..\h0204)

\* C1 witness: mixer_set_source(src, 18) has returned having sent nothing
C1_Witness ==
  /\ op.name = "mixer_set_source"
  /\ op.args[2] = 18
  /\ sent = <<>>
  /\ err = "none"

\* the second payload byte the claim gives for an integer gain of db dB
GainByte(db) ==
  IF db <= -128 THEN \h80
  ELSE IF db > 6 THEN \h06
  ELSE IF db >= 0 THEN db
  ELSE 256 + db

\* C2: for an integer db, mixer_set_gain(chn, bus, db) with chn in 0..17 and
\* bus in 0..5 emits exactly one request, with wIndex 0x3c00, wValue
\* 0x0100 + ((chn<<3) + bus) (0x011A for chn 3, bus 2) and payload
\* [0x00, b]: b = 0x80 for db <= -128, 0x06 for db > 6, db for 0..6 and
\* 256 + db for -128 < db < 0.
C2_MixerSetGainRequest ==
  (op.name = "mixer_set_gain" /\ op.args[1] \in 0..17 /\ op.args[2] \in 0..5
     /\ op.args[3] % DbDen = 0)
  => /\ Len(sent) = 1
     /\ sent[1].wIndex = \h3c00
     /\ sent[1].wValue = \h0100 + (op.args[1] * 8 + op.args[2])
     /\ (op.args[1] = 3 /\ op.args[2] = 2) => sent[1].wValue = \h011A
     /\ sent[1].data = <<\h00, GainByte(op.args[3] \div DbDen)>>
     /\ op.args[3] = 6 * DbDen => sent[1].data = <<\h00, \h06>>
     /\ op.args[3] = 7 * DbDen => sent[1].data = <<\h00, \h06>>
     /\ op.args[3] = (-1) * DbDen => sent[1].data = <<\h00, \hFF>>
     /\ op.args[3] = (-128) * DbDen => sent[1].data = <<\h00, \h80>>

\* C2 witness: mixer_set_gain(3, 2, -1) has sent its request
C2_Witness ==
  /\ op.name = "mixer_set_gain"
  /\ op.args = <<3, 2, (-1) * DbDen>>
  /\ Len(sent) = 1
  /\ sent[1].wValue = \h011A
  /\ sent[1].data = <<\h00, \hFF>>

\* r is 65536.5 + 256 * (n / DbDen) rounded to the nearest integer, halves up
IsRound(r, n) ==
  /\ 2 * DbDen * r - DbDen <= 131073 * DbDen + 512 * n
  /\ 131073 * DbDen + 512 * n < 2 * DbDen * r + DbDen

\* r is the largest integer not above 65536.5 + 256 * (n / DbDen)
IsFloor(r, n) ==
  /\ 2 * DbDen * r <= 131073 * DbDen + 512 * n
  /\ 131073 * DbDen + 512 * n < 2 * DbDen * (r + 1)

\* C3 as stated: att_to_hex returns [0x00,0x80] for db <= -128, [0x00,0x00]
\* for db >= 0, otherwise round(65536.5 + 256.0 * db) split into
\* [low byte, high byte]; for db = -6 the value is 64001 and the bytes are
\* [0x41,0xFA].
C3_AttToHexRounds ==
  op.name = "att_to_hex" =>
    LET n == op.args[1]
    IN  /\ n <= (-128) * DbDen => ret = <<\h00, \h80>>
        /\ n >= 0 => ret = <<\h00, \h00>>
        /\ ((-128) * DbDen < n /\ n < 0) =>
             /\ ret[1] \in 0..255
             /\ IsRound(ret[1] + 256 * ret[2], n)
        /\ n = (-6) * DbDen =>
             /\ IsRound(64001, n)
             /\ ret = <<\h41, \hFA>>

\* C3 amended: att_to_hex returns [0x00,0x80] for db <= -128, [0x00,0x00]
\* for db >= 0, otherwise val = floor(65536.5 + 256.0 * db) split into
\* [val & 0xff, val >> 8]; for db = -6 the value is 64000 and the result
\* is [0x00,0xFA].
C3_AttToHexFloors ==
  op.name = "att_to_hex" =>
    LET n == op.args[1]
    IN  /\ n <= (-128) * DbDen => ret = <<\h00, \h80>>
        /\ n >= 0 => ret = <<\h00, \h00>>
        /\ ((-128) * DbDen < n /\ n < 0) =>
             /\ Len(ret) = 2
             /\ ret[1] \in 0..255
             /\ IsFloor(ret[1] + 256 * ret[2], n)
        /\ n = (-6) * DbDen =>
             /\ IsFloor(64000, n)
             /\ ret = <<\h00, \hFA>>

\* C3 witness: att_to_hex(-6) has returned [0x00,0xFA]
C3_Witness ==
  /\ op.name = "att_to_hex"
  /\ op.args[1] = (-6) * DbDen
  /\ ret = <<\h00, \hFA>>

\* the requests a wrapper must have sent, in order, for the buses and the
\* decibel values it was called with
SentAttenuations(buses, dbs) ==
  /\ Len(sent) \in 1..Len(buses)
  /\ err = "none" => Len(sent) = Len(buses)
  /\ \A i \in 1..Len(sent) :
       /\ sent[i].wIndex = \h0a00
       /\ sent[i].wValue = \h0200 + buses[i]
       /\ sent[i].data = att_to_hex(PyNum(dbs[i]))

\* C4: att_out_master(db) emits one request with wIndex 0x0a00, wValue
\* 0x0200 and payload att_to_hex(db); att_out_monitor(l, r) and
\* att_out_phones(l, r) emit requests for buses 1,2 and 3,4 with payloads
\* att_to_hex(l) and att_to_hex(r).
C4_WrappersSendEncodedDb ==
  /\ op.name = "att_out_master" => SentAttenuations(<<0>>, op.args)
  /\ op.name = "att_out_monitor" => SentAttenuations(<<1, 2>>, op.args)
  /\ op.name = "att_out_phones" => SentAttenuations(<<3, 4>>, op.args)

\* the value a register holds; a register never written holds nothing
Reg(wIndex, wValue) ==
  IF <<wIndex, wValue>> \in DOMAIN dev THEN dev[<<wIndex, wValue>>] ELSE None

\* C5: after factory_reset has completed without a transport error, from
\* whatever state it started in: router destinations 0..3 hold M1,M2,M1,M2
\* and 4,5 hold OFF; matrix inputs 0..7 hold analog 1..8, 8..13 ADAT1..6,
\* 14 and 15 S/PDIF1 and 2, 16 and 17 DAW1 and 2; gain cell (i, o) holds
\* [0x00,0x00] exactly when i % 2 = o and [0x00,0x80] otherwise; output
\* buses 1..4 are unmuted; channels 0 and 1 have impedance LINEIN.
C5_FactoryResetState ==
  Completed("factory_reset") =>
    /\ Reg(\h3300, 0) = <<\h18, 0>> /\ Reg(\h3300, 1) = <<\h19, 0>>
    /\ Reg(\h3300, 2) = <<\h18, 0>> /\ Reg(\h3300, 3) = <<\h19, 0>>
    /\ Reg(\h3300, 4) = <<\hff, 0>> /\ Reg(\h3300, 5) = <<\hff, 0>>
    /\ \A i \in 0..7 : Reg(\h3200, \h0600 + i) = <<\h06 + i, 0>>
    /\ \A i \in 8..13 : Reg(\h3200, \h0600 + i) = <<\h10 + (i - 8), 0>>
    /\ Reg(\h3200, \h0600 + 14) = <<\h0e, 0>>
    /\ Reg(\h3200, \h0600 + 15) = <<\h0f, 0>>
    /\ Reg(\h3200, \h0600 + 16) = <<\h00, 0>>
    /\ Reg(\h3200, \h0600 + 17) = <<\h01, 0>>
    /\ \A i \in 0..17, o \in 0..5 :
         /\ (i % 2 = o) <=> (Reg(\h3c00, \h0100 + i * 8 + o) = <<\h00, \h00>>)
         /\ (i % 2 # o) <=> (Reg(\h3c00, \h0100 + i * 8 + o) = <<\h00, \h80>>)
    /\ \A b \in 1..4 : Reg(\h0a00, \h0100 + b) = <<0, 0>>
    /\ \A c \in 0..1 : Reg(\h0100, \h0901 + c) = <<0, 0>>

\* C5 witness: factory_reset has completed on a device whose master bus an
\* earlier setter call had muted
C5_Witness ==
  /\ Completed("factory_reset")
  /\ Reg(\h0a00, \h0100) = <<1, 0>>

\* the registers zero_settings is to leave alone: the master mute flag, the
\* five bus attenuations, the impedance switches and the clock source
KeptRegisters ==
  {<<\h0a00, \h0100>>, <<\h2800, \h0100>>}
  \cup {<<\h0a00, \h0200 + b>> : b \in 0..4}
  \cup {<<\h0100, \h0901 + c>> : c \in 0..1}

\* C6: after zero_settings has completed without a transport error, from
\* whatever state it started in (a prior factory_reset included), every gain
\* cell holds [0x00,0x80], every matrix input and every router destination
\* holds OFF and output buses 1..4 are unmuted; and no step of zero_settings
\* changes the master mute flag, a bus attenuation, an impedance switch or
\* the clock source.
C6_ZeroSettingsState ==
  /\ [](Completed("zero_settings") =>
          /\ \A i \in 0..17, o \in 0..5 :
               Reg(\h3c00, \h0100 + i * 8 + o) = <<\h00, \h80>>
          /\ \A i \in 0..17 : Reg(\h3200, \h0600 + i) = <<\hff, 0>>
          /\ \A d \in 0..5 : Reg(\h3300, d) = <<\hff, 0>>
          /\ \A b \in 1..4 : Reg(\h0a00, \h0100 + b) = <<0, 0>>)
  /\ [][op'.name = "zero_settings" =>
          \A a \in KeptRegisters :
            /\ (a \in DOMAIN dev') <=> (a \in DOMAIN dev)
            /\ a \in DOMAIN dev => dev'[a] = dev[a]]_vars

\* C6 witness: zero_settings has completed after a factory_reset, on a
\* device whose master bus an earlier setter call had muted
C6_Witness ==
  /\ Completed("zero_settings")
  /\ Reg(\h0100, \h0803) = <<0, 0>>
  /\ Reg(\h0a00, \h0100) = <<1, 0>>

\* C7: query_peak fails, and returns no snapshot, whenever one of the three
\* blocks the transport delivered has a length other than 36, 12 and 16,
\* shorter or longer; it returns 18, 6 and 8 readings only when all three
\* lengths match.
C7_MeterLengthsChecked ==
  (op.name = "query_peak" /\ op.args[4] = <<"ok", "ok", "ok">>) =>
    LET match == /\ Len(op.args[1]) = 36
                 /\ Len(op.args[2]) = 12
                 /\ Len(op.args[3]) = 16
    IN  /\ ~match => (err # "none" /\ ret = None)
        /\ ret # None => match
        /\ match => /\ Len(ret.input) = 18
                    /\ Len(ret.daw) = 6
                    /\ Len(ret.mixer) = 8

\* C8: sw_impedance(chn, mode) with chn outside 0..1 fails with a range
\* error and emits no request, so every request of sw_impedance has wIndex
\* 0x0100, wValue 0x0901 or 0x0902 and payload [mode, 0x00].
C8_ImpedanceRangeChecked ==
  op.name = "sw_impedance" =>
    /\ op.args[1] \notin 0..1 => (sent = <<>> /\ err = "RangeError")
    /\ \A r \in Requests :
         /\ r.wIndex = \h0100
         /\ r.wValue \in {\h0901, \h0902}
         /\ r.data = <<op.args[2], \h00>>

\* C9: every control request is attempted once.  A failed transfer raises
\* ValueError, which leaves the call: every SET request attempted before the
\* failing one remains applied, and no request is handed to the transport
\* twice in a row.  When the failure is at the k-th request of factory_reset
\* or zero_settings, exactly k requests were attempted, and nothing is
\* emitted or changed afterwards.
C9_NoRetryNoRollback ==
  /\ [](/\ err # "none" =>
             /\ err = "ValueError"
             /\ Len(sent) >= 1
             /\ LET written == DOMAIN dev
                IN  \A i \in 1..(Len(sent) - 1) :
                      sent[i].bRequest = \h01 =>
                        /\ Addr(sent[i]) \in written
                        /\ dev[Addr(sent[i])] = sent[i].data
        /\ op.name \in BulkPrograms =>
             Len(sent) = (IF err # "none" THEN pc
                          ELSE IF pc = 0 THEN Len(Program(op.name))
                          ELSE pc - 1)
        /\ Len(sent) >= 2 => sent[Len(sent)] # sent[Len(sent) - 1])
  /\ [][err # "none" => UNCHANGED <<dev, sent, err, pc>>]_vars

\* C9 witness: the 30th request of factory_reset failed
C9_Witness ==
  /\ op.name = "factory_reset"
  /\ err = "ValueError"
  /\ pc = 30
  /\ Len(sent) = 30

\* C10: for every db strictly between -128 and 0, non-integers included,
\* att_to_hex(db) returns exactly two elements, each in 0..255.
C10_AttPayloadIsBytes ==
  (op.name = "att_to_hex" /\ (-128) * DbDen < op.args[1] /\ op.args[1] < 0) =>
    /\ Len(ret) = 2
    /\ \A i \in 1..2 : ret[i] \in 0..255

====
